---- MODULE Spec2Model ----
(***************************************************************************)
(* A model of the session-scoped vector store of the ai-tutor backend      *)
(* (backend/app/core/vectorstore.py) together with the embedding port it   *)
(* calls (backend/app/core/embeddings.py).                                 *)
(*                                                                         *)
(* Vectors range over integer multiples of the unit axis vectors           *)
(* (<<3,0>>, <<0,-2>>, <<1>>, ...).  On that domain x/||x|| is the         *)
(* componentwise sign, so L2 normalisation and squared L2 distance are     *)
(* computed exactly in integers.                                           *)
(*                                                                         *)
(* The clock is time.time() truncated to whole seconds; it never runs      *)
(* backwards.                                                              *)
(***************************************************************************)
EXTENDS Integers, Sequences, FiniteSets, TLC

VARIABLES
    now,          \* int(time.time())
    session_id,   \* VectorStore.session_id (the integer the string is made from)
    dimension,    \* VectorStore.dimension; None is 0
    index,        \* VectorStore.index: [d, vecs]; None is d = 0
    documents,    \* VectorStore.documents: id -> DocumentChunk
    sources,      \* VectorStore.sources: source -> record
    disk,         \* the three artifacts under session_directory
    last,         \* the last call on the store: its arguments, what it returned and,
                  \* for add_documents, the second t it ran in
    sessions,     \* history: every session id assigned so far
    issued,       \* history: ids returned by add_documents under this session id
    issuedEra,    \* history: ids returned since the last clear / start_new_session
    passed,       \* history: per source, the chunks the registry held when it was last
                  \* (re)initialised plus the chunks passed to add_documents since
    faults,       \* history: how many calls of the environment (port, file system) have raised
    calls,        \* the add_documents calls running in executor threads: per
                  \* thread its position and its locals (chunks, doc_ids)
    observed,     \* what the last search on the event loop got from index.search
                  \* and what it returned, while executor threads were running
    doc,          \* chunk_text: the text argument, a sequence of characters
    cleaned,      \* chunk_text: text after the cleaning at the top of the method
    pending,      \* chunk_text: the create_chunks calls still to run, first one first
    made,         \* chunk_text: the list chunks that create_chunks appends to
    ret,          \* chunk_text: where the call is and what it returned
    urls,         \* ingest_documents: the urls argument, each with or without an
                  \* http(s) prefix
    files,        \* ingest_documents: the files argument, each by what its
                  \* processing comes to
    url_tasks,    \* ingest_documents: per url where its limited_process_url task is
    sem,          \* ingest_documents: the value of the asyncio.Semaphore
    waiters,      \* ingest_documents: the tasks waiting in sem.acquire(), first one first
    document_chunks,    \* ingest_documents: the sources (urls first, then files)
                        \* whose chunks are in document_chunks
    processing_errors,  \* ingest_documents: the entries of processing_errors
    request,      \* ingest_documents: where the request is and its response
    ask,          \* ask_question: where the request is, what it retrieved and
                  \* its response
    ingests       \* two ingest_documents requests with new_session on the one
                  \* store: per request where it is and the session it started

storeVars == <<now, session_id, dimension, index, documents, sources, disk, last,
               sessions, issued, issuedEra, passed, faults>>

threadVars == <<calls, observed>>

chunkerVars == <<doc, cleaned, pending, made, ret>>

ingestVars == <<urls, files, url_tasks, sem, waiters, document_chunks, processing_errors,
                request>>

apiVars == <<ask, ingests>>

vars == <<now, session_id, dimension, index, documents, sources, disk, last,
          sessions, issued, issuedEra, passed, faults, calls, observed,
          doc, cleaned, pending, made, ret,
          urls, files, url_tasks, sem, waiters, document_chunks, processing_errors,
          request, ask, ingests>>

---------------------------------------------------------------------------
(* Bounds of the model *)

MaxTime == 1
MaxBatch == 2
MaxIndex == 3
MaxCount == 3
MaxK == 2
MaxFaults == 1
MaxThreadBatch == 1
MaxLen == 20
MaxUnit == 6
MaxDepth == 8
MaxUrls == 4
MaxFiles == 1

---------------------------------------------------------------------------
(* Values *)

None == 0
NoSource == ""
NoVector == <<>>
EmptyTable == <<>>

Range(f) == {f[i] : i \in DOMAIN f}

Max(S) == CHOOSE m \in S : \A x \in S : x <= m

Min2(a, b) == IF a <= b THEN a ELSE b

\* DocumentChunk(text, metadata, embedding): metadata carries source and title.
DocumentChunk(text, source, title, embedding) ==
    [text |-> text, source |-> source, title |-> title, embedding |-> embedding]

\* The chunks the callers hand to add_documents.  The ingest endpoint builds
\* chunks without an embedding; the last one carries a precomputed one and
\* names no source.
ChunkUniverse ==
    { DocumentChunk("tA", "s1", "T1", NoVector),
      DocumentChunk("tB", "s2", "T2", NoVector),
      DocumentChunk("tC", NoSource, "T3", <<-2, 0>>) }

SourceNames == {"s1", "s2"}

Queries == {"tA", "tB"}

Batches ==
    {<<>>} \cup UNION { [1..n -> ChunkUniverse] : n \in 1..MaxBatch }

\* The chunks of a caller that brings embeddings of another model: the
\* second one carries a precomputed embedding of another length than the
\* port's.
PresetUniverse ==
    { DocumentChunk("tA", "s1", "T1", NoVector),
      DocumentChunk("tD", NoSource, "T4", <<1>>) }

PresetBatches == UNION { [1..n -> PresetUniverse] : n \in 1..MaxBatch }

\* The batches the ingest endpoint hands to an executor thread: the chunks
\* of one request, never none (if document_chunks:).
ThreadBatches ==
    UNION { [1..n -> ChunkUniverse] : n \in 1..MaxThreadBatch }

SaveFailures ==
    {"none", "index_open", "index_write", "meta_open", "meta_dump",
     "src_open", "src_dump"}

---------------------------------------------------------------------------
(* The embedding port *)

\* SentenceTransformer.encode: an opaque, deterministic text -> vector map.
ModelEncode(text) ==
    CASE text = "tA" -> <<3, 0>>
      [] text = "tB" -> <<0, 2>>
      [] text = "tC" -> <<-2, 0>>
      [] OTHER       -> <<0, -1>>

Sign(x) == IF x > 0 THEN 1 ELSE IF x < 0 THEN -1 ELSE 0

\* EmbeddingsProvider.normalize_embedding: v / ||v||, v itself when ||v|| = 0.
normalize_embedding(v) == [i \in DOMAIN v |-> Sign(v[i])]

\* EmbeddingsProvider.embed_query / one element of embed_documents.
embed_query(text) == normalize_embedding(ModelEncode(text))

\* faiss.normalize_L2 on one row.
normalize_L2(v) == [i \in DOMAIN v |-> Sign(v[i])]

RECURSIVE SumSq(_, _, _)
SumSq(u, v, i) ==
    IF i = 0 THEN 0 ELSE (u[i] - v[i]) * (u[i] - v[i]) + SumSq(u, v, i - 1)

\* The metric of faiss.IndexFlatL2: squared Euclidean distance.
L2Distance(u, v) == SumSq(u, v, Len(u))

---------------------------------------------------------------------------
(* The index and the artifacts *)

NoneIndex == [d |-> 0, vecs |-> <<>>]

IndexFlatL2(d) == [d |-> d, vecs |-> <<>>]

IsNone(ix) == ix.d = 0

Absent == [st |-> "absent", val |-> <<>>]
Corrupt == [st |-> "corrupt", val |-> <<>>]
Written(v) == [st |-> "ok", val |-> v]

\* A session directory without artifacts.
EmptyDirectory == [index |-> Absent, metadata |-> Absent, sources |-> Absent]

\* os.path.getmtime(self.directory): the store's root directory changes only
\* when a session directory is created in it, at the second that names it.
DirMtime == session_id

---------------------------------------------------------------------------
(* VectorStore._save and VectorStore._load *)

\* _save: the index (when there is one), then the document table, then the
\* source registry.  The first write that raises ends the method; the
\* exception is printed and swallowed.  A write fails either on opening the
\* file (the artifact keeps what it held) or after truncating it (the artifact
\* is left unreadable).
_save(d, ix, docs, srcs, failAt) ==
    LET indexFails == ~IsNone(ix) /\ failAt \in {"index_open", "index_write"}
        metaFails  == failAt \in {"meta_open", "meta_dump"}
        d1 == IF IsNone(ix) \/ failAt = "index_open" THEN d
              ELSE IF failAt = "index_write" THEN [d EXCEPT !.index = Corrupt]
              ELSE [d EXCEPT !.index = Written(ix)]
        d2 == IF indexFails \/ failAt = "meta_open" THEN d1
              ELSE IF failAt = "meta_dump" THEN [d1 EXCEPT !.metadata = Corrupt]
              ELSE [d1 EXCEPT !.metadata = Written(docs)]
        d3 == IF indexFails \/ metaFails \/ failAt = "src_open" THEN d2
              ELSE IF failAt = "src_dump" THEN [d2 EXCEPT !.sources = Corrupt]
              ELSE [d2 EXCEPT !.sources = Written(srcs)]
    IN  d3

\* Whether _save got through all of its writes.
SaveCompleted(ix, failAt) ==
    \/ failAt = "none"
    \/ IsNone(ix) /\ failAt \in {"index_open", "index_write"}

\* The embedding of the first value of a loaded document table.
FirstEmbedding(docs) == docs[CHOOSE i \in DOMAIN docs : \A j \in DOMAIN docs : i <= j].embedding

\* A variant of _load that reads the index and the document table and leaves
\* the source registry empty.
_loadSkipsSources(d) ==
    IF d.index.st = "corrupt"
    THEN [dimension |-> None, index |-> NoneIndex, documents |-> EmptyTable,
          sources |-> EmptyTable, raised |-> TRUE]
    ELSE IF d.metadata.st = "corrupt"
    THEN [dimension |-> None, index |-> NoneIndex, documents |-> EmptyTable,
          sources |-> EmptyTable, raised |-> FALSE]
    ELSE [dimension |-> IF DOMAIN d.metadata.val # {}
                        THEN Len(FirstEmbedding(d.metadata.val)) ELSE None,
          index     |-> d.index.val,
          documents |-> d.metadata.val,
          sources   |-> EmptyTable,
          raised    |-> FALSE]

\* _load on a store that start_new_session has just reset: the outcome as
\* [dimension, index, documents, sources, raised].  faiss.read_index raises a
\* RuntimeError on an unreadable file, which _load does not catch; an
\* unreadable document table is caught and leaves the store empty; an
\* unreadable source registry loads as {}.
_load(d) ==
    IF d.index.st = "corrupt"
    THEN [dimension |-> None, index |-> NoneIndex, documents |-> EmptyTable,
          sources |-> EmptyTable, raised |-> TRUE]
    ELSE IF d.metadata.st = "corrupt"
    THEN [dimension |-> None, index |-> NoneIndex, documents |-> EmptyTable,
          sources |-> EmptyTable, raised |-> FALSE]
    ELSE [dimension |-> IF DOMAIN d.metadata.val # {}
                        THEN Len(FirstEmbedding(d.metadata.val)) ELSE None,
          index     |-> d.index.val,
          documents |-> d.metadata.val,
          sources   |-> IF d.sources.st = "ok" THEN d.sources.val ELSE EmptyTable,
          raised    |-> FALSE]

\* _initialize on a store that has just been reset: load when both the index
\* and the document-table artifact exist, else stay empty.
_initialize(d) ==
    IF d.index.st # "absent" /\ d.metadata.st # "absent"
    THEN _load(d)
    ELSE [dimension |-> None, index |-> NoneIndex, documents |-> EmptyTable,
          sources |-> EmptyTable, raised |-> FALSE]

---------------------------------------------------------------------------
(* The steps of VectorStore.add_documents *)

\* A variant of TrackSources that stamps first_added with the time of the
\* call, on a new record and on every later update.
RECURSIVE TrackSourcesRestamped(_, _, _, _)
TrackSourcesRestamped(srcs, chunks, t, mtime) ==
    IF chunks = <<>> THEN srcs
    ELSE LET c == Head(chunks)
             s == c.source
             nxt == IF s = NoSource THEN srcs
                    ELSE IF s \notin DOMAIN srcs
                    THEN (s :> [title |-> c.title, chunk_count |-> 1,
                                first_added |-> t, last_updated |-> t]) @@ srcs
                    ELSE [srcs EXCEPT ![s].chunk_count = @ + 1,
                                      ![s].first_added = t,
                                      ![s].last_updated = t]
         IN  TrackSourcesRestamped(nxt, Tail(chunks), t, mtime)

\* Lines 131-150: one registry update per chunk that names a source.
RECURSIVE TrackSources(_, _, _, _)
TrackSources(srcs, chunks, t, mtime) ==
    IF chunks = <<>> THEN srcs
    ELSE LET c == Head(chunks)
             s == c.source
             nxt == IF s = NoSource THEN srcs
                    ELSE IF s \notin DOMAIN srcs
                    THEN (s :> [title |-> c.title, chunk_count |-> 1,
                                first_added |-> mtime, last_updated |-> t]) @@ srcs
                    ELSE [srcs EXCEPT ![s].chunk_count = @ + 1,
                                      ![s].last_updated = t]
         IN  TrackSources(nxt, Tail(chunks), t, mtime)

\* Lines 155-161: the chunks that still need an embedding.
NeedsEmbedding(chunks) == \E i \in DOMAIN chunks : chunks[i].embedding = NoVector

\* Lines 166-168: embed_documents on the texts without an embedding.
EmbedChunks(chunks) ==
    [i \in DOMAIN chunks |->
        IF chunks[i].embedding = NoVector
        THEN [chunks[i] EXCEPT !.embedding = embed_query(chunks[i].text)]
        ELSE chunks[i]]

\* Lines 175-178: bind the dimension to the first embedding's length.
BindDimension(dim, ix, chunks) ==
    IF dim = None /\ chunks # <<>> /\ chunks[1].embedding # NoVector
    THEN [dimension |-> Len(chunks[1].embedding),
          index |-> IndexFlatL2(Len(chunks[1].embedding))]
    ELSE [dimension |-> dim, index |-> ix]

\* A variant of StartId that starts at the largest key instead of after it.
StartIdAtMax(docs) == IF DOMAIN docs = {} THEN 0 ELSE Max(DOMAIN docs)

\* Lines 186-188: the starting id.
StartId(docs) == IF DOMAIN docs = {} THEN 0 ELSE Max(DOMAIN docs) + 1

\* A variant of DocIds that counts down from the last id.
DocIdsReversed(start, n) == [i \in 1..n |-> start + n - i]

\* Line 190: list(range(start_id, start_id + len(chunks))).
DocIds(start, n) == [i \in 1..n |-> start + i - 1]

\* Lines 193-199: np.array(vectors) raises on rows of unequal length and
\* index.add on rows whose length is not the index's.
IndexAddRaises(ix, chunks) ==
    \E i \in DOMAIN chunks : Len(chunks[i].embedding) # ix.d

\* Lines 193-199: normalise the rows and append them to the index.
IndexAdd(ix, chunks) ==
    [ix EXCEPT !.vecs = @ \o [i \in DOMAIN chunks |-> normalize_L2(chunks[i].embedding)]]

\* Lines 202-203: documents[doc_ids[i]] = chunk.
StoreDocuments(docs, ids, chunks) ==
    [k \in DOMAIN docs \cup Range(ids) |->
        IF k \in Range(ids)
        THEN chunks[CHOOSE i \in DOMAIN ids : ids[i] = k]
        ELSE docs[k]]

\* How many chunks of a batch name source s.
RECURSIVE CountSource(_, _)
CountSource(chunks, s) ==
    IF chunks = <<>> THEN 0
    ELSE (IF Head(chunks).source = s THEN 1 ELSE 0) + CountSource(Tail(chunks), s)

(* add_documents as a sequence of stages over a frame: the store's fields   *)
(* (dimension, index, documents, sources, disk) and the call's locals       *)
(* (chunks, ids, out).  out is "run" until the call has decided what it     *)
(* returns; a stage leaves a decided frame as it is.                        *)

Frame(dim, ix, docs, srcs, d, chunks) ==
    [dimension |-> dim, index |-> ix, documents |-> docs, sources |-> srcs,
     disk |-> d, chunks |-> chunks, ids |-> <<>>, out |-> "run", fail |-> "none"]

\* Lines 128-129: if not chunks: return [].
CheckStage(st) ==
    IF st.chunks = <<>> THEN [st EXCEPT !.out = "empty"] ELSE st

\* Lines 131-150.
TrackStage(st, t, mtime) ==
    IF st.out # "run" THEN st
    ELSE [st EXCEPT !.sources = TrackSources(st.sources, st.chunks, t, mtime)]

\* A variant of EmbedStage that binds the dimension from a precomputed first
\* embedding before it calls the port.
EmbedStageBindsFirst(st, embedOk) ==
    IF st.out # "run" THEN st
    ELSE IF NeedsEmbedding(st.chunks) /\ ~embedOk
    THEN LET b == BindDimension(st.dimension, st.index, st.chunks)
         IN  [st EXCEPT !.out = "embed_error", !.dimension = b.dimension,
                        !.index = b.index]
    ELSE [st EXCEPT !.chunks = EmbedChunks(st.chunks)]

\* Lines 154-172: embed the chunks that lack an embedding; return [] when
\* the port raises.
EmbedStage(st, embedOk) ==
    IF st.out # "run" THEN st
    ELSE IF NeedsEmbedding(st.chunks) /\ ~embedOk
    THEN [st EXCEPT !.out = "embed_error"]
    ELSE [st EXCEPT !.chunks = EmbedChunks(st.chunks)]

\* Lines 174-178.
BindStage(st) ==
    IF st.out # "run" THEN st
    ELSE LET b == BindDimension(st.dimension, st.index, st.chunks)
         IN  [st EXCEPT !.dimension = b.dimension, !.index = b.index]

\* Lines 181-190: nothing is added without an index; else the ids are
\* taken from the document table as it is now.
IdsStage(st) ==
    IF st.out # "run" THEN st
    ELSE IF IsNone(st.index) THEN [st EXCEPT !.out = "no_index"]
    ELSE [st EXCEPT !.ids = DocIds(StartId(st.documents), Len(st.chunks))]

\* Lines 192-199: an exception here is caught at line 213 and gives [].
IndexStage(st) ==
    IF st.out # "run" THEN st
    ELSE IF IndexAddRaises(st.index, st.chunks)
    THEN [st EXCEPT !.out = "index_error", !.ids = <<>>]
    ELSE [st EXCEPT !.index = IndexAdd(st.index, st.chunks)]

\* Lines 201-203.
StoreStage(st) ==
    IF st.out # "run" THEN st
    ELSE [st EXCEPT !.documents = StoreDocuments(st.documents, st.ids, st.chunks)]

\* Lines 205-212: _save swallows what it raises; the ids are returned.
SaveStage(st, failAt) ==
    IF st.out # "run" THEN st
    ELSE [st EXCEPT !.disk = _save(st.disk, st.index, st.documents, st.sources, failAt),
                    !.fail = IF SaveCompleted(st.index, failAt) THEN "none" ELSE failAt,
                    !.out = "ok"]

\* The whole call, one caller at a time.
RunAddDocuments(st, t, mtime, embedOk, failAt) ==
    SaveStage(StoreStage(IndexStage(IdsStage(BindStage(
        EmbedStage(TrackStage(CheckStage(st), t, mtime), embedOk))))), failAt)

---------------------------------------------------------------------------
(* index.search *)

\* IndexFlatL2.search(q, k) on a non-empty result: every list of
\* min(k, ntotal) distinct positions (0-based) in ascending distance from q
\* that leaves out no position nearer than its last.  Positions at equal
\* distance come in either order.  The slots beyond ntotal hold -1 and are
\* left out here: search drops them (idx >= 0).
IndexSearch(ix, q, k) ==
    LET n == Len(ix.vecs)
        m == Min2(k, n)
        dist(p) == L2Distance(ix.vecs[p], q)
    IN  { [i \in 1..m |-> r[i] - 1] :
            r \in { f \in [1..m -> 1..n] :
                      /\ \A i, j \in 1..m : i < j => f[i] # f[j] /\ dist(f[i]) <= dist(f[j])
                      /\ \A p \in 1..n : p \notin Range(f) =>
                             \A i \in 1..m : dist(f[i]) <= dist(p) } }

\* Lines 248-251: keep the positions that are keys of the document table.
KeepStored(positions, docs) ==
    SelectSeq(positions, LAMBDA p : p >= 0 /\ p \in DOMAIN docs)

---------------------------------------------------------------------------
(* The record of the last call *)

NoCall ==
    [op |-> "init", chunks |-> <<>>, ids |-> <<>>, q |-> "", k |-> 0,
     res |-> <<>>, sid |-> 0, out |-> "ok", t |-> 0, fail |-> "none"]

\* The executor threads that run add_documents for the ingest endpoint.
Threads == {1, 2}

\* A thread that runs no call.
Idle == [pc |-> "idle", chunks |-> <<>>, ids |-> <<>>, out |-> "run"]

NoObservation ==
    [op |-> "none", q |-> "", k |-> 0, positions |-> <<>>, res |-> <<>>,
     inflight |-> {}]

---------------------------------------------------------------------------
(* The operations of VectorStore *)

\* VectorStore.__init__ at second t0 of a process that finds no artifacts of
\* its own second.
StoreInit ==
    /\ now = 0
    /\ session_id = now
    /\ dimension = None
    /\ index = NoneIndex
    /\ documents = EmptyTable
    /\ sources = EmptyTable
    /\ disk = EmptyDirectory
    /\ last = [NoCall EXCEPT !.sid = now]
    /\ sessions = {now}
    /\ issued = {}
    /\ issuedEra = {}
    /\ passed = [s \in SourceNames |-> 0]
    /\ faults = 0
    /\ calls = [t \in Threads |-> Idle]
    /\ observed = NoObservation

\* No chunk_text call.
ChunkerIdle ==
    /\ doc = <<>>
    /\ cleaned = <<>>
    /\ pending = <<>>
    /\ made = <<>>
    /\ ret = [st |-> "idle", chunks |-> <<>>]

\* No ingestion request.
IngestIdle ==
    /\ urls = <<>>
    /\ files = <<>>
    /\ url_tasks = <<>>
    /\ sem = 0
    /\ waiters = <<>>
    /\ document_chunks = <<>>
    /\ processing_errors = <<>>
    /\ request = [phase |-> "idle", timed_out |-> FALSE, success |-> FALSE,
                  document_count |-> 0, passed |-> <<>>, ids |-> <<>>]

\* No question is being answered.
AskIdle ==
    [pc |-> "idle", question |-> "", num_chunks |-> 0, relevant_chunks |-> <<>>,
     sources |-> <<>>, answer |-> "", posts |-> 0]

\* The ingest requests that may overlap.
Clients == {1, 2}

ApiIdle ==
    /\ ask = AskIdle
    /\ ingests = [r \in Clients |->
                     [pc |-> "idle", new_session |-> FALSE, session |-> 0, added_in |-> 0]]

Init == StoreInit /\ ChunkerIdle /\ IngestIdle /\ ApiIdle

\* The clock passes a second boundary.
Tick ==
    /\ now < MaxTime
    /\ now' = now + 1
    /\ UNCHANGED <<session_id, dimension, index, documents, sources, disk, last,
                   sessions, issued, issuedEra, passed, faults, calls, observed>>
    /\ UNCHANGED <<chunkerVars, ingestVars, apiVars>>

\* VectorStore.add_documents(chunks), the whole call.  embedOk: the embedding
\* port returns (it is called only when a chunk lacks an embedding);
\* failAt: where _save fails, if it does.
add_documents(chunks, embedOk, failAt) ==
    \E st \in {RunAddDocuments(
                  Frame(dimension, index, documents, sources, disk, chunks),
                  now, DirMtime, embedOk, failAt)} :
        /\ dimension' = st.dimension
        /\ index' = st.index
        /\ documents' = st.documents
        /\ sources' = st.sources
        /\ disk' = st.disk
        /\ last' = [NoCall EXCEPT !.op = "add", !.chunks = chunks, !.t = now,
                                  !.sid = session_id, !.ids = st.ids,
                                  !.out = st.out, !.fail = st.fail]
        /\ issued' = issued \cup Range(st.ids)
        /\ issuedEra' = issuedEra \cup Range(st.ids)
        /\ passed' = [s \in SourceNames |->
                         passed[s] + (IF st.out = "empty" THEN 0
                                      ELSE CountSource(chunks, s))]
        /\ UNCHANGED <<now, session_id, sessions>>

\* What VectorStore.search(query, k) can return on index ix and table docs,
\* as [res, out]: res lists the keys of the returned entries.  Every
\* exception inside (the port raising, a query of another dimension, k < 1)
\* is caught and gives [].
SearchOutcomes(ix, docs, query, k, embedOk) ==
    LET qv == normalize_L2(embed_query(query))
    IN  IF IsNone(ix) \/ DOMAIN docs = {}
        THEN {[res |-> <<>>, out |-> "empty"]}
        ELSE IF ~embedOk \/ Len(qv) # ix.d \/ k < 1
        THEN {[res |-> <<>>, out |-> "search_error"]}
        ELSE {[res |-> KeepStored(positions, docs), out |-> "ok"] :
                 positions \in IndexSearch(ix, qv, k)}

\* VectorStore.search(query, k), the whole call.
search(query, k, embedOk) ==
    /\ \E o \in SearchOutcomes(index, documents, query, k, embedOk) :
          last' = [NoCall EXCEPT !.op = "search", !.q = query, !.k = k,
                                 !.sid = session_id,
                                 !.res = o.res, !.out = o.out]
    /\ UNCHANGED <<now, session_id, dimension, index, documents, sources, disk,
                   sessions, issued, issuedEra, passed>>

\* A variant of clear that leaves the source table as it is.
clearKeepsSources(failAt) ==
    LET ix == IF dimension = None THEN NoneIndex ELSE IndexFlatL2(dimension)
    IN  /\ index' = ix
        /\ documents' = EmptyTable
        /\ sources' = sources
        /\ disk' = _save(EmptyDirectory, ix, EmptyTable, sources, failAt)
        /\ last' = [NoCall EXCEPT !.op = "clear", !.sid = session_id,
                       !.fail = IF SaveCompleted(ix, failAt) THEN "none" ELSE failAt]
        /\ issuedEra' = {}
        /\ passed' = [s \in SourceNames |-> 0]
        /\ UNCHANGED <<now, session_id, dimension, sessions, issued>>

\* VectorStore.clear(): remove the three artifacts, empty the tables, keep
\* the dimension, save.
clear(failAt) ==
    LET ix == IF dimension = None THEN NoneIndex ELSE IndexFlatL2(dimension)
    IN  /\ index' = ix
        /\ documents' = EmptyTable
        /\ sources' = EmptyTable
        /\ disk' = _save(EmptyDirectory, ix, EmptyTable, EmptyTable, failAt)
        /\ last' = [NoCall EXCEPT !.op = "clear", !.sid = session_id,
                       !.fail = IF SaveCompleted(ix, failAt) THEN "none" ELSE failAt]
        /\ issuedEra' = {}
        /\ passed' = [s \in SourceNames |-> 0]
        /\ UNCHANGED <<now, session_id, dimension, sessions, issued>>

\* _update_paths after session_id = str(int(time.time())): the directory the
\* paths point to.  A second that names no earlier session names a directory
\* that does not exist yet; the same second names the same directory.
_update_paths(sid) == IF sid = session_id THEN disk ELSE EmptyDirectory

\* VectorStore.start_new_session(): new id from the clock, repoint the paths,
\* reset, _initialize.
start_new_session ==
    LET sid    == now
        dir    == _update_paths(sid)
        loaded == _initialize(dir)
    IN  /\ session_id' = sid
        /\ disk' = dir
        /\ dimension' = loaded.dimension
        /\ index' = loaded.index
        /\ documents' = loaded.documents
        /\ sources' = loaded.sources
        /\ last' = [NoCall EXCEPT !.op = "new_session", !.sid = sid,
                       !.out = IF loaded.raised THEN "raise" ELSE "ok"]
        /\ sessions' = sessions \cup {sid}
        /\ issued' = IF sid = session_id THEN issued ELSE {}
        /\ issuedEra' = {}
        /\ passed' = [s \in SourceNames |->
                         IF s \in DOMAIN loaded.sources
                         THEN loaded.sources[s].chunk_count ELSE 0]
        /\ UNCHANGED now

---------------------------------------------------------------------------
(* The sequential specification: one caller at a time *)

\* The bounds on a batch: the index and the per-source counters stay small.
WithinBounds(chunks) ==
    /\ Len(index.vecs) + Len(chunks) <= MaxIndex
    /\ \A s \in SourceNames :
          (IF s \in DOMAIN sources THEN sources[s].chunk_count ELSE 0)
              + CountSource(chunks, s) <= MaxCount

\* The environment raises at most MaxFaults times in a run.
Raises(n) == faults + n <= MaxFaults /\ faults' = faults + n

AddDocuments ==
    \E chunks \in Batches, embedOk \in BOOLEAN, failAt \in SaveFailures :
        /\ WithinBounds(chunks)
        /\ ~embedOk => NeedsEmbedding(chunks)
        /\ failAt # "none" => embedOk /\ chunks # <<>>
        /\ Raises((IF embedOk THEN 0 ELSE 1) + (IF failAt = "none" THEN 0 ELSE 1))
        /\ add_documents(chunks, embedOk, failAt)
        /\ UNCHANGED <<calls, observed>>
        /\ UNCHANGED <<chunkerVars, ingestVars, apiVars>>

Search ==
    \E query \in Queries, k \in 1..MaxK, embedOk \in BOOLEAN :
        /\ ~embedOk => ~IsNone(index) /\ DOMAIN documents # {}
        /\ Raises(IF embedOk THEN 0 ELSE 1)
        /\ search(query, k, embedOk)
        /\ UNCHANGED <<calls, observed>>
        /\ UNCHANGED <<chunkerVars, ingestVars, apiVars>>

Clear ==
    \E failAt \in SaveFailures :
        /\ Raises(IF failAt = "none" THEN 0 ELSE 1)
        /\ clear(failAt)
        /\ UNCHANGED <<calls, observed>>
        /\ UNCHANGED <<chunkerVars, ingestVars, apiVars>>

StartNewSession ==
    /\ start_new_session
    /\ UNCHANGED <<faults, calls, observed>>
    /\ UNCHANGED <<chunkerVars, ingestVars, apiVars>>

Next == Tick \/ AddDocuments \/ Search \/ Clear \/ StartNewSession

Spec == Init /\ [][Next]_vars

\* add_documents called with chunks that may carry their own embeddings.
AddPresetDocuments ==
    \E chunks \in PresetBatches, embedOk \in BOOLEAN, failAt \in SaveFailures :
        /\ WithinBounds(chunks)
        /\ ~embedOk => NeedsEmbedding(chunks)
        /\ failAt # "none" => embedOk /\ chunks # <<>>
        /\ Raises((IF embedOk THEN 0 ELSE 1) + (IF failAt = "none" THEN 0 ELSE 1))
        /\ add_documents(chunks, embedOk, failAt)
        /\ UNCHANGED <<calls, observed>>
        /\ UNCHANGED <<chunkerVars, ingestVars, apiVars>>

NextPreset == Tick \/ AddPresetDocuments \/ Search \/ Clear \/ StartNewSession

\* The sequential store with such a caller.
SpecPreset == Init /\ [][NextPreset]_vars

---------------------------------------------------------------------------
(* Claims about the sequential store *)

\* Every list search(q, k) can return now, over the queries and k of the model.
AllSearchResults ==
    UNION { {o.res : o \in SearchOutcomes(index, documents, q, k, TRUE)} :
              q \in Queries, k \in 1..MaxK }

\* C1 (as claimed): right after start_new_session() the store is empty:
\* the document table and get_all_sources() are {} and every search
\* returns [], however little time has passed since the session before.
C1_SessionIsolation ==
    last.op = "new_session" =>
        /\ DOMAIN documents = {}
        /\ DOMAIN sources = {}
        /\ AllSearchResults = {<<>>}

\* C2 (as claimed): every start_new_session() returns an identifier that no
\* session of the process had before, the one made at construction included.
C2_FreshSessionId ==
    [][StartNewSession => session_id' \notin sessions]_vars

\* C3 (as claimed): within one session id, over add_documents, search and
\* clear calls, no id returned by add_documents was returned by an earlier
\* add_documents call.
C3_IdsNeverReused ==
    [][last'.op = "add" /\ documents' # documents =>
          Range(last'.ids) \cap issued = {}]_vars

\* C3 (amended): between two calls that empty or reload the table (clear,
\* start_new_session), no id returned by add_documents was returned by an
\* earlier add_documents call; the ids a call returns are pairwise distinct.
C3_IdsNotReusedUntilCleared ==
    [][last'.op = "add" /\ documents' # documents =>
          /\ Range(last'.ids) \cap issuedEra = {}
          /\ Cardinality(Range(last'.ids)) = Len(last'.ids)]_vars

\* C3 witness: a second add_documents call of an era has returned id 1
\* after an earlier call returned id 0.
C3_Witness ==
    /\ last.op = "add"
    /\ last.ids = <<1>>
    /\ issuedEra = {0, 1}

\* C6: when the embedding port raises during add_documents, the call
\* returns [] and leaves the index, the document table, the dimension and
\* the persisted artifacts as they were; every search returns what it
\* returned before the call.
C6_EmbeddingFailureNoMutation ==
    [][last'.op = "add" /\ last'.out = "embed_error" =>
          /\ last'.ids = <<>>
          /\ index' = index
          /\ documents' = documents
          /\ dimension' = dimension
          /\ disk' = disk
          /\ AllSearchResults' = AllSearchResults]_vars

\* C6 witness: the port has raised in an add_documents call on a store that
\* holds persisted entries which search returns.
C6_Witness ==
    /\ last.op = "add"
    /\ last.out = "embed_error"
    /\ DOMAIN documents # {}
    /\ disk.metadata.st = "ok"
    /\ AllSearchResults # {<<>>}

\* C7 (as claimed): when _save fails inside add_documents, the call returns
\* an empty id list.
C7_PersistFailureReturnsEmpty ==
    last.op = "add" /\ last.fail # "none" => last.ids = <<>>

\* C8: chunk_count of a source is the number of its chunks passed to
\* add_documents; the last call that passed a chunk of the source stamped
\* last_updated with its time; across add_documents calls first_added keeps
\* its value and last_updated does not decrease.
C8_SourceBookkeeping ==
    /\ [](\A s \in SourceNames :
            /\ s \in DOMAIN sources => sources[s].chunk_count = passed[s]
            /\ s \notin DOMAIN sources => passed[s] = 0
            /\ last.op = "add" /\ CountSource(last.chunks, s) > 0 =>
                  s \in DOMAIN sources /\ sources[s].last_updated = last.t)
    /\ [][last'.op = "add" =>
            \A s \in DOMAIN sources :
               /\ s \in DOMAIN sources'
               /\ sources'[s].first_added = sources[s].first_added
               /\ sources'[s].last_updated >= sources[s].last_updated]_vars

\* C8 witness: a call with two chunks of s1 has brought its chunk_count to 3
\* in a second later than the one the record was created in.
C8_Witness ==
    /\ last.op = "add"
    /\ CountSource(last.chunks, "s1") = 2
    /\ "s1" \in DOMAIN sources
    /\ sources["s1"].chunk_count = 3
    /\ sources["s1"].first_added = 0
    /\ sources["s1"].last_updated = 1

\* C9: a successful add_documents call on n chunks returns n ids, the i-th
\* being the key of the i-th input chunk in the document table, and the ids
\* are consecutive from max(existing ids) + 1 (0 on an empty table).
C9_PositionalIds ==
    /\ [](last.op = "add" /\ last.out = "ok" =>
            /\ Len(last.ids) = Len(last.chunks)
            /\ \A i \in DOMAIN last.ids :
                  /\ last.ids[i] \in DOMAIN documents
                  /\ documents[last.ids[i]] = EmbedChunks(last.chunks)[i]
                  /\ i > 1 => last.ids[i] = last.ids[i - 1] + 1)
    /\ [][last'.op = "add" /\ last'.out = "ok" /\ documents' # documents =>
            last'.ids[1] = IF DOMAIN documents = {} THEN 0
                           ELSE Max(DOMAIN documents) + 1]_vars

\* C9 witness: a call with two different chunks on a table that held id 0
\* has returned <<1, 2>>.
C9_Witness ==
    /\ last.op = "add"
    /\ last.ids = <<1, 2>>
    /\ last.chunks[1] # last.chunks[2]

\* The distance between the normalised query and the normalised embedding of
\* the entry stored under id.
EntryDistance(id, query) ==
    L2Distance(normalize_L2(documents[id].embedding),
               normalize_L2(embed_query(query)))

\* C10 (as claimed): search(q, k) returns at most k entries of the document
\* table, none twice, in ascending distance between the query and the
\* entries' vectors, and leaves out no entry nearer than a returned one.
C10_SearchRanking ==
    last.op = "search" =>
        /\ Len(last.res) <= last.k
        /\ \A i \in DOMAIN last.res : last.res[i] \in DOMAIN documents
        /\ \A i, j \in DOMAIN last.res :
              i < j => /\ last.res[i] # last.res[j]
                       /\ EntryDistance(last.res[i], last.q)
                             <= EntryDistance(last.res[j], last.q)
        /\ \A id \in DOMAIN documents \ Range(last.res) :
              \A i \in DOMAIN last.res :
                 EntryDistance(last.res[i], last.q) <= EntryDistance(id, last.q)

\* C11: clear() keeps the session id and the bound dimension; afterwards the
\* document table and the source table are empty, every search returns [],
\* the index is an empty index of the bound dimension (None when none was
\* bound), the artifacts hold nothing of what was stored before (the empty
\* tables when _save got through), and loading them gives an empty store.
C11_ClearEmptiesSession ==
    /\ [][last'.op = "clear" =>
            session_id' = session_id /\ dimension' = dimension]_vars
    /\ [](last.op = "clear" =>
            /\ documents = EmptyTable
            /\ sources = EmptyTable
            /\ AllSearchResults = {<<>>}
            /\ index = (IF dimension = None THEN NoneIndex ELSE IndexFlatL2(dimension))
            /\ last.fail = "none" =>
                  /\ disk.metadata = Written(EmptyTable)
                  /\ disk.sources = Written(EmptyTable)
                  /\ disk.index = (IF dimension = None THEN Absent ELSE Written(index))
            /\ LET loaded == _initialize(disk)
               IN  /\ loaded.documents = EmptyTable
                   /\ loaded.sources = EmptyTable
                   /\ loaded.index.vecs = <<>>)

\* C11 witness: clear() has run on a session with a bound dimension that had
\* returned ids before, and has written the empty state.
C11_Witness ==
    /\ last.op = "clear"
    /\ last.fail = "none"
    /\ dimension = 2
    /\ issued # {}
    /\ disk.index = Written(IndexFlatL2(2))

---------------------------------------------------------------------------
(* The concurrent specification: the ingest endpoint hands add_documents to  *)
(* executor threads (loop.run_in_executor) while the event loop serves       *)
(* search.  VectorStore takes no lock, so the threads' steps interleave on   *)
(* the store's fields; a step here is one stage of add_documents, each a     *)
(* run of statements between which the interpreter may switch threads.  The  *)
(* port and the file system do not raise in this specification.              *)

\* The frame of thread t: the store's fields as they are now, the call's locals.
ThreadFrame(t) ==
    [dimension |-> dimension, index |-> index, documents |-> documents,
     sources |-> sources, disk |-> disk, chunks |-> calls[t].chunks,
     ids |-> calls[t].ids, out |-> calls[t].out, fail |-> "none"]

\* Write a stage's frame back: the store's fields and the thread's locals.
\* A call that has decided what it returns is done.
Commit(t, st, pc) ==
    /\ dimension' = st.dimension
    /\ index' = st.index
    /\ documents' = st.documents
    /\ sources' = st.sources
    /\ disk' = st.disk
    /\ calls' = [calls EXCEPT ![t] =
                    [pc |-> IF st.out # "run" THEN "done" ELSE pc,
                     chunks |-> st.chunks, ids |-> st.ids, out |-> st.out]]
    /\ UNCHANGED <<now, session_id, last, sessions, issued, issuedEra, passed,
                   faults, observed>>
    /\ UNCHANGED <<chunkerVars, ingestVars, apiVars>>

\* ingest: loop.run_in_executor(None, lambda: vectorstore.add_documents(chunks)).
Submit(t) ==
    /\ calls[t].pc = "idle"
    /\ \E chunks \in ThreadBatches :
          calls' = [calls EXCEPT ![t] = [Idle EXCEPT !.pc = "track", !.chunks = chunks]]
    /\ UNCHANGED <<now, session_id, dimension, index, documents, sources, disk,
                   last, sessions, issued, issuedEra, passed, faults, observed>>
    /\ UNCHANGED <<chunkerVars, ingestVars, apiVars>>

TrackStep(t) ==
    /\ calls[t].pc = "track"
    /\ Commit(t, TrackStage(CheckStage(ThreadFrame(t)), now, DirMtime), "embed")

EmbedStep(t) ==
    /\ calls[t].pc = "embed"
    /\ Commit(t, EmbedStage(ThreadFrame(t), TRUE), "bind")

BindStep(t) ==
    /\ calls[t].pc = "bind"
    /\ Commit(t, BindStage(ThreadFrame(t)), "ids")

IdsStep(t) ==
    /\ calls[t].pc = "ids"
    /\ Commit(t, IdsStage(ThreadFrame(t)), "index")

IndexStep(t) ==
    /\ calls[t].pc = "index"
    /\ Commit(t, IndexStage(ThreadFrame(t)), "store")

StoreStep(t) ==
    /\ calls[t].pc = "store"
    /\ Commit(t, StoreStage(ThreadFrame(t)), "save")

SaveStep(t) ==
    /\ calls[t].pc = "save"
    /\ Commit(t, SaveStage(ThreadFrame(t), "none"), "done")

\* The threads whose add_documents call has started and not returned.
InFlight == {t \in Threads : calls[t].pc \notin {"idle", "done"}}

\* rag: vectorstore.search(question, k) on the event loop, as one step on the
\* store as the threads have left it.
ConcurrentSearch ==
    /\ \E query \in Queries, k \in 1..MaxK :
          \E positions \in
                (IF IsNone(index) \/ DOMAIN documents = {} THEN {<<>>}
                 ELSE IndexSearch(index, normalize_L2(embed_query(query)), k)) :
              observed' = [op |-> "search", q |-> query, k |-> k,
                           positions |-> positions,
                           res |-> KeepStored(positions, documents),
                           inflight |-> InFlight]
    /\ UNCHANGED <<now, session_id, dimension, index, documents, sources, disk,
                   last, sessions, issued, issuedEra, passed, faults, calls>>
    /\ UNCHANGED <<chunkerVars, ingestVars, apiVars>>

NextConc ==
    \/ \E t \in Threads :
          \/ Submit(t)
          \/ TrackStep(t)
          \/ EmbedStep(t)
          \/ BindStep(t)
          \/ IdsStep(t)
          \/ IndexStep(t)
          \/ StoreStep(t)
          \/ SaveStep(t)
    \/ ConcurrentSearch

SpecConc == Init /\ [][NextConc]_vars

---------------------------------------------------------------------------
(* Claims about concurrent calls *)

\* C4 (as claimed): when two add_documents calls run concurrently, the id
\* lists they return are disjoint and, once both have returned, the document
\* table holds one entry for every chunk of both calls and the index holds
\* as many vectors as the table has entries.
C4_ConcurrentAddsDoNotRace ==
    (\A t \in Threads : calls[t].pc = "done" /\ calls[t].out = "ok") =>
        /\ Range(calls[1].ids) \cap Range(calls[2].ids) = {}
        /\ Cardinality(DOMAIN documents) = Len(calls[1].chunks) + Len(calls[2].chunks)
        /\ Len(index.vecs) = Cardinality(DOMAIN documents)

\* C5 (as claimed): a search that runs while an add_documents call is in
\* progress gets no position from the index that has no entry in the
\* document table.
C5_SearchSeesNoHalfWrittenIndex ==
    observed.op = "search" /\ observed.inflight # {} =>
        \A i \in DOMAIN observed.positions :
            observed.positions[i] \in Range(observed.res)

---------------------------------------------------------------------------
(* DocumentProcessor.chunk_text (backend/app/core/processors.py).            *)
(*                                                                           *)
(* A text is a sequence of characters; positions are Python's, from 0.  The  *)
(* sizes are those of a small configuration (CHUNK_SIZE and CHUNK_OVERLAP    *)
(* are settings; the short-text limit is scaled with them) that keeps the    *)
(* order of the default one:                                                 *)
(*   overlap_chars < short-text limit <= quarter_chunk < half_chunk          *)
(*   < chunk_size_chars      (175 < 200 < 437 < 875 < 1750 by default).      *)

ChunkSizeChars == 12

OverlapChars == 2

ShortLimit == 3

HalfChunk == ChunkSizeChars \div 2

QuarterChunk == ChunkSizeChars \div 4

\* What str.strip() removes and \s matches.
IsSpace(c) == c \in {" ", "\n", "\t"}

\* The length of the run of whitespace that starts at index i (from 1).
RECURSIVE RunLength(_, _)
RunLength(t, i) ==
    IF i > Len(t) \/ ~IsSpace(t[i]) THEN 0 ELSE 1 + RunLength(t, i + 1)

\* re.sub(r'\s{3,}', '\n\n', text), from index i on.
RECURSIVE SubRuns3(_, _)
SubRuns3(t, i) ==
    IF i > Len(t) THEN <<>>
    ELSE IF RunLength(t, i) >= 3
    THEN <<"\n", "\n">> \o SubRuns3(t, i + RunLength(t, i))
    ELSE IF RunLength(t, i) = 2
    THEN <<t[i], t[i + 1]>> \o SubRuns3(t, i + 2)
    ELSE <<t[i]>> \o SubRuns3(t, i + 1)

\* re.sub(r'\s{2}', '\n', text), from index i on.
RECURSIVE SubPairs(_, _)
SubPairs(t, i) ==
    IF i > Len(t) THEN <<>>
    ELSE IF i < Len(t) /\ IsSpace(t[i]) /\ IsSpace(t[i + 1])
    THEN <<"\n">> \o SubPairs(t, i + 2)
    ELSE <<t[i]>> \o SubPairs(t, i + 1)

\* re.sub(r'\t', ' ', text).
SubTabs(t) == [i \in DOMAIN t |-> IF t[i] = "\t" THEN " " ELSE t[i]]

\* str.strip().
strip(t) ==
    LET keep == {i \in DOMAIN t : ~IsSpace(t[i])}
    IN  IF keep = {} THEN <<>>
        ELSE SubSeq(t, CHOOSE i \in keep : \A j \in keep : i <= j, Max(keep))

\* Lines 45-48: the cleaning.
CleanText(raw) == strip(SubTabs(SubPairs(SubRuns3(raw, 1), 1)))

\* text.rfind(c1 + c2, lo, hi): the highest position in [lo, hi - 2] where
\* the two characters stand, -1 when there is none.
rfind(t, c1, c2, lo, hi) ==
    LET S == {i \in lo..(Min2(hi, Len(t)) - 2) : t[i + 1] = c1 /\ t[i + 2] = c2}
    IN  IF S = {} THEN -1 ELSE Max(S)

\* Line 113: text[start_pos:end_pos].strip().
SectionText(t, start_pos, end_pos) == strip(SubSeq(t, start_pos + 1, end_pos))

\* Lines 141-168: the break point of a section that is too long: the last
\* paragraph break before mid_point + half_chunk, else the position after the
\* last sentence end before mid_point + quarter_chunk, else the midpoint.
\* ('\r\n\r\n' is searched too; a text of this alphabet holds no '\r'.)
BestBreak(t, start_pos, end_pos) ==
    LET mid_point == start_pos + Len(SectionText(t, start_pos, end_pos)) \div 2
        paragraph_break == Max({rfind(t, "\n", "\n", start_pos, mid_point + HalfChunk), -1})
        sentence_break ==
            Max({rfind(t, ".", " ", start_pos, mid_point + QuarterChunk),
                 rfind(t, "!", " ", start_pos, mid_point + QuarterChunk),
                 rfind(t, "?", " ", start_pos, mid_point + QuarterChunk), -1})
    IN  IF paragraph_break > start_pos THEN paragraph_break
        ELSE IF sentence_break > start_pos THEN sentence_break + 1
        ELSE mid_point

\* Line 174: overlap_start = max(start_pos, best_break - overlap_chars).
OverlapStart(start_pos, best_break) == Max({start_pos, best_break - OverlapChars})

\* One create_chunks call.
Call(start_pos, end_pos, depth) ==
    [start_pos |-> start_pos, end_pos |-> end_pos, depth |-> depth]

\* Lines 114-117: the section fits one chunk.
IsBase(t, c) == Len(SectionText(t, c.start_pos, c.end_pos)) <= ChunkSizeChars

\* Lines 171-175: the two recursive calls of a section that is too long.
Halves(t, c) ==
    LET best_break == BestBreak(t, c.start_pos, c.end_pos)
    IN  << Call(c.start_pos, best_break, c.depth + 1),
           Call(OverlapStart(c.start_pos, best_break), c.end_pos, c.depth + 1) >>

\* A variant of Chunk that keeps the section as it is sliced.
ChunkUnstripped(t, c, chunk_index) ==
    [text |-> SubSeq(t, c.start_pos + 1, c.end_pos), chunk_index |-> chunk_index,
     char_start |-> c.start_pos, char_end |-> c.end_pos]

\* Lines 119-137: the chunk of a base section.
Chunk(t, c, chunk_index) ==
    [text |-> SectionText(t, c.start_pos, c.end_pos), chunk_index |-> chunk_index,
     char_start |-> c.start_pos, char_end |-> c.end_pos]

\* A variant of WholeTextChunk that takes char_end from the text as it came.
WholeTextChunkRawEnd(text) ==
    [text |-> text, chunk_index |-> 0, char_start |-> 0, char_end |-> Len(doc)]

\* Lines 62-73: the only chunk of a short text.
WholeTextChunk(text) ==
    [text |-> text, chunk_index |-> 0, char_start |-> 0, char_end |-> Len(text)]

\* Line 181: chunks.sort(key=char_start), a stable sort: insert x after the
\* chunks that do not start later.
RECURSIVE InsertByStart(_, _)
InsertByStart(sorted, x) ==
    IF sorted = <<>> THEN <<x>>
    ELSE IF Head(sorted).char_start <= x.char_start
    THEN <<Head(sorted)>> \o InsertByStart(Tail(sorted), x)
    ELSE <<x>> \o sorted

RECURSIVE SortByStart(_)
SortByStart(chunks) ==
    IF chunks = <<>> THEN <<>>
    ELSE InsertByStart(SortByStart(SubSeq(chunks, 1, Len(chunks) - 1)),
                       chunks[Len(chunks)])

\* The positions a dedup pass keeps.
KeptPositions(chunks) ==
    {i \in DOMAIN chunks : i = 1 \/ chunks[i].text # chunks[i - 1].text}

\* The elements of chunks at the positions of S, in order.
RECURSIVE Pick(_, _, _)
Pick(chunks, S, i) ==
    IF i > Len(chunks) THEN <<>>
    ELSE (IF i \in S THEN <<chunks[i]>> ELSE <<>>) \o Pick(chunks, S, i + 1)

\* A variant of Dedup that keeps every chunk.
DedupKeepsAll(chunks) == chunks

\* Lines 183-186: keep a chunk unless its text is that of the chunk before it.
Dedup(chunks) == Pick(chunks, KeptPositions(chunks), 1)

\* A variant of Renumber that keeps the indices create_chunks gave.
RenumberKeeps(chunks) == chunks

\* Lines 190-191: chunk_index = position in the list.
Renumber(chunks) == [i \in DOMAIN chunks |-> [chunks[i] EXCEPT !.chunk_index = i - 1]]

(* The texts handed to chunk_text *)

\* Whitespace and sentence ends as they come in extracted text.
Pieces ==
    { <<".", " ">>, <<".", "\n">>, <<" ">>, <<" ", " ">>, <<" ", "\n", " ">>, <<"\t">> }

Marks == [p : 1..MaxLen, piece : Pieces]

\* n letters with the piece of mark m laid over them.
Overlay(n, m) ==
    [i \in 1..n |->
        IF m.p <= i /\ i < m.p + Len(m.piece) THEN m.piece[i - m.p + 1] ELSE "a"]

\* The first n characters of unit repeated.
Periodic(unit, n) == [i \in 1..n |-> unit[((i - 1) % Len(unit)) + 1]]

Units == UNION { [1..u -> {"a", ".", " "}] : u \in 1..MaxUnit }

\* Prose with a mark in it, and repetitive text (tables, listings, the same
\* sentence over and over).
Texts ==
    { Overlay(n, m) : n \in 0..MaxLen, m \in Marks }
        \cup { Periodic(unit, n) : unit \in Units, n \in 0..MaxLen }

---------------------------------------------------------------------------
(* chunk_text as a state machine: the cleaning and the short cuts, then one  *)
(* create_chunks call per step (the pending calls are the interpreter's      *)
(* stack of calls still to run), then the sort, the dedup and the            *)
(* renumbering.  MaxDepth stands for the interpreter's recursion limit.      *)

\* A processor calls chunk_text(text, metadata).
ChunkerCalled ==
    /\ doc \in Texts
    /\ cleaned = <<>>
    /\ pending = <<>>
    /\ made = <<>>
    /\ ret = [st |-> "called", chunks |-> <<>>]

\* Lines 45-73: clean; [] for an empty text; one chunk for a short one;
\* line 178: else create_chunks(0, len(text)).
EnterChunkText ==
    /\ ret.st = "called"
    /\ \E text \in {CleanText(doc)} :
          /\ cleaned' = text
          /\ IF text = <<>>
             THEN ret' = [st |-> "ok", chunks |-> <<>>] /\ pending' = <<>>
             ELSE IF Len(text) < ShortLimit
             THEN /\ ret' = [st |-> "ok", chunks |-> <<WholeTextChunk(text)>>]
                  /\ pending' = <<>>
             ELSE /\ ret' = [st |-> "run", chunks |-> <<>>]
                  /\ pending' = <<Call(0, Len(text), 0)>>
    /\ UNCHANGED <<doc, made>>
    /\ UNCHANGED <<storeVars, threadVars, ingestVars, apiVars>>

\* Lines 108-138: a create_chunks call on a section that fits one chunk.
CreateChunksBase ==
    /\ ret.st = "run"
    /\ pending # <<>>
    /\ Head(pending).depth <= MaxDepth
    /\ IsBase(cleaned, Head(pending))
    /\ made' = IF SectionText(cleaned, Head(pending).start_pos, Head(pending).end_pos) = <<>>
               THEN made
               ELSE Append(made, Chunk(cleaned, Head(pending), Len(made)))
    /\ pending' = Tail(pending)
    /\ UNCHANGED <<doc, cleaned, ret>>
    /\ UNCHANGED <<storeVars, threadVars, ingestVars, apiVars>>

\* Lines 140-175: a create_chunks call on a section that is too long.
CreateChunksSplit ==
    /\ ret.st = "run"
    /\ pending # <<>>
    /\ Head(pending).depth <= MaxDepth
    /\ ~IsBase(cleaned, Head(pending))
    /\ pending' = Halves(cleaned, Head(pending)) \o Tail(pending)
    /\ UNCHANGED <<doc, cleaned, made, ret>>
    /\ UNCHANGED <<storeVars, threadVars, ingestVars, apiVars>>

\* The call stack is full: RecursionError leaves chunk_text.
RecursionOverflow ==
    /\ ret.st = "run"
    /\ pending # <<>>
    /\ Head(pending).depth > MaxDepth
    /\ ret' = [st |-> "raise", chunks |-> <<>>]
    /\ UNCHANGED <<doc, cleaned, pending, made>>
    /\ UNCHANGED <<storeVars, threadVars, ingestVars, apiVars>>

\* Lines 180-194: sort by char_start, dedup, renumber, return.
ReturnChunks ==
    /\ ret.st = "run"
    /\ pending = <<>>
    /\ ret' = [st |-> "ok", chunks |-> Renumber(Dedup(SortByStart(made)))]
    /\ UNCHANGED <<doc, cleaned, pending, made>>
    /\ UNCHANGED <<storeVars, threadVars, ingestVars, apiVars>>

NextChunker ==
    \/ EnterChunkText
    \/ CreateChunksBase
    \/ CreateChunksSplit
    \/ RecursionOverflow
    \/ ReturnChunks

ChunkerInit == StoreInit /\ ChunkerCalled /\ IngestIdle /\ ApiIdle

SpecChunker == ChunkerInit /\ [][NextChunker]_vars

---------------------------------------------------------------------------
(* Claims about chunk_text *)

\* x occurs in y as a run of consecutive characters.
IsInfix(x, y) ==
    \E k \in 0..(Len(y) - Len(x)) : SubSeq(y, k + 1, k + Len(x)) = x

\* C13: a text whose cleaned form is non-empty and shorter than the
\* short-text limit comes back as one chunk: the cleaned text, chunk_index 0,
\* char_start 0, char_end its length; a text whose cleaned form is empty
\* comes back as [].
C13_ShortTextOneChunk ==
    ret.st = "ok" /\ Len(cleaned) < ShortLimit =>
        /\ cleaned = CleanText(doc)
        /\ cleaned = <<>> => ret.chunks = <<>>
        /\ cleaned # <<>> =>
              ret.chunks = <<[text |-> cleaned, chunk_index |-> 0,
                              char_start |-> 0, char_end |-> Len(cleaned)]>>

\* C13 witness: a text that the cleaning shortened has come back as one chunk.
C13_Witness ==
    /\ ret.st = "ok"
    /\ Len(cleaned) = 2
    /\ Len(doc) > 3
    /\ Len(ret.chunks) = 1

\* C14 (as claimed): the ranges of the returned chunks cover the cleaned
\* text: the first starts at 0, the last ends at len(cleaned text), and no
\* chunk starts after the end of the one before it.
C14_Coverage ==
    ret.st = "ok" /\ cleaned # <<>> =>
        /\ ret.chunks # <<>>
        /\ ret.chunks[1].char_start = 0
        /\ ret.chunks[Len(ret.chunks)].char_end = Len(cleaned)
        /\ \A i \in 2..Len(ret.chunks) :
              ret.chunks[i].char_start <= ret.chunks[i - 1].char_end

\* C15: the returned list is strictly ascending in char_start and the j-th
\* chunk (from 0) has chunk_index j.
C15_MonotonicOrdering ==
    ret.st = "ok" =>
        /\ \A i \in 2..Len(ret.chunks) :
              ret.chunks[i - 1].char_start < ret.chunks[i].char_start
        /\ \A i \in DOMAIN ret.chunks : ret.chunks[i].chunk_index = i - 1

\* C15 witness: several chunks have come back after the dedup left one of
\* the chunks of the recursion out, so the renumbering had indices to close up.
C15_Witness ==
    /\ ret.st = "ok"
    /\ Len(ret.chunks) >= 2
    /\ Len(made) > Len(ret.chunks)

\* C16 (as claimed): of two consecutive returned chunks the later starts
\* before the earlier ends, by at most overlap_chars, and the text they
\* share occurs in the later chunk.
C16_Overlap ==
    ret.st = "ok" =>
        \A i \in 2..Len(ret.chunks) :
            /\ ret.chunks[i].char_start < ret.chunks[i - 1].char_end
            /\ ret.chunks[i - 1].char_end - ret.chunks[i].char_start <= OverlapChars
            /\ IsInfix(SectionText(cleaned, ret.chunks[i].char_start,
                                   ret.chunks[i - 1].char_end),
                       ret.chunks[i].text)

C18_Terminates ==
    /\ ret.st # "raise"
    /\ \A k \in DOMAIN pending :
          ~IsBase(cleaned, pending[k]) =>
              \A h \in Range(Halves(cleaned, pending[k])) :
                  h.end_pos - h.start_pos < pending[k].end_pos - pending[k].start_pos

---------------------------------------------------------------------------
(* ingest_documents (backend/app/api/ingest.py), the URL part: a request    *)
(* with urls and no files.  A url is its prefix ("http" stands for http://  *)
(* and https://) and what its processor will come back with.  Time is not    *)
(* measured: a processor may take any time, and the timer of wait_for may    *)
(* go off whenever the gather has not finished.                              *)

\* Settings.max_concurrent_tasks (MAX_CONCURRENT_TASKS, default 3).
max_concurrent_tasks == 3

Prefixes == {"http", "other"}

\* What process_url returns: (url_chunks, None) or ([], error).
Outcomes == {"chunks", "error"}

Requests ==
    UNION { [1..n -> [prefix : Prefixes, outcome : Outcomes]] : n \in 1..MaxUrls }

\* What the try block of one uploaded file comes to (lines 258-291): the
\* processor returns chunks; it returns [] (no text in the file, or the
\* processor has caught its own exception, processors.py:343-347, 661-663,
\* 685-687); or something outside the processor raises (file.read, the
\* temporary file, get_processor).
FileOutcomes == {"chunks", "empty", "raise"}

FileBatches == UNION { [1..n -> FileOutcomes] : n \in 0..MaxFiles }

\* Lines 212: url and url.startswith('http://') or url.startswith('https://').
ValidPrefix(u) == u.prefix = "http"

\* The indices, from i on, of the elements of seq that are in S, in order.
RECURSIVE SelectIndices(_, _, _)
SelectIndices(seq, S, i) ==
    IF i > Len(seq) THEN <<>>
    ELSE (IF seq[i] \in S THEN <<i>> ELSE <<>>) \o SelectIndices(seq, S, i + 1)

\* asyncio.Semaphore.acquire returns at once when the value is positive
\* (async with sem, line 205).
CanEnter(value) == value > 0

\* The tasks inside process_url, the ones whose executor thread still runs
\* after the task was cancelled included.
Processing == {i \in DOMAIN url_tasks : url_tasks[i] \in {"running", "orphan"}}

\* The client posts urls.
IngestCalled ==
    /\ urls \in Requests
    /\ files \in FileBatches
    /\ url_tasks = [i \in DOMAIN urls |-> "none"]
    /\ sem = 0
    /\ waiters = <<>>
    /\ document_chunks = <<>>
    /\ processing_errors = <<>>
    /\ request = [phase |-> "called", timed_out |-> FALSE, success |-> FALSE,
                  document_count |-> 0, passed |-> <<>>, ids |-> <<>>]

\* Lines 202-217: the semaphore, and a task per url with an http(s) prefix;
\* the others are recorded as errors.  Without a task the gather is skipped
\* (line 219).
CreateUrlTasks ==
    /\ request.phase = "called"
    /\ sem' = max_concurrent_tasks
    /\ url_tasks' = [i \in DOMAIN urls |->
                        IF ValidPrefix(urls[i]) THEN "created" ELSE "skipped"]
    /\ processing_errors' =
          [k \in 1..Len(SelectIndices(urls, {u \in Range(urls) : ~ValidPrefix(u)}, 1)) |->
              "invalid"]
    /\ request' = [request EXCEPT !.phase =
                      IF \E i \in DOMAIN urls : ValidPrefix(urls[i])
                      THEN "created" ELSE "collected"]
    /\ UNCHANGED <<urls, files, waiters, document_chunks>>
    /\ UNCHANGED <<storeVars, threadVars, chunkerVars, apiVars>>

\* The tasks in the order gather started them, each entering when state
\* lets it: the resulting [tasks, value, waiters].
RECURSIVE Enter(_, _)
Enter(order, state) ==
    IF order = <<>> THEN state
    ELSE Enter(Tail(order),
               IF CanEnter(state.value)
               THEN [state EXCEPT !.tasks[Head(order)] = "running",
                                  !.value = @ - 1]
               ELSE [state EXCEPT !.tasks[Head(order)] = "waiting",
                                  !.waiters = Append(@, Head(order))])

\* Lines 224-227 and 204-206: gather starts the tasks in the order of the
\* list; each runs up to its first suspension before an executor can hand
\* anything back, so the first ones enter the semaphore and the others
\* queue up in acquire().
StartGather ==
    /\ request.phase = "created"
    /\ \E st \in {Enter(SelectIndices(url_tasks, {"created"}, 1),
                        [tasks |-> url_tasks, value |-> sem, waiters |-> <<>>])} :
          /\ url_tasks' = st.tasks
          /\ sem' = st.value
          /\ waiters' = st.waiters
    /\ request' = [request EXCEPT !.phase = "gather"]
    /\ UNCHANGED <<urls, files, document_chunks, processing_errors>>
    /\ UNCHANGED <<storeVars, threadVars, chunkerVars, apiVars>>

\* Lines 82-198 and 205-206: process_url returns (chunks, None) or, on no
\* content and on any exception, ([], error); leaving the async with block
\* releases the semaphore.
FinishUrl ==
    /\ request.phase = "gather"
    /\ \E i \in DOMAIN url_tasks :
          /\ url_tasks[i] = "running"
          /\ url_tasks' = [url_tasks EXCEPT ![i] = urls[i].outcome]
    /\ sem' = sem + 1
    /\ UNCHANGED <<urls, files, waiters, document_chunks, processing_errors, request>>
    /\ UNCHANGED <<storeVars, threadVars, chunkerVars, apiVars>>

\* Semaphore.release wakes the first waiter, which then takes the value.
Admit ==
    /\ request.phase = "gather"
    /\ waiters # <<>>
    /\ CanEnter(sem)
    /\ url_tasks' = [url_tasks EXCEPT ![Head(waiters)] = "running"]
    /\ sem' = sem - 1
    /\ waiters' = Tail(waiters)
    /\ UNCHANGED <<urls, files, document_chunks, processing_errors, request>>
    /\ UNCHANGED <<storeVars, threadVars, chunkerVars, apiVars>>

\* Pending(tasks): a task of the gather has not returned.
Pending(tasks) == \E i \in DOMAIN tasks : tasks[i] \in {"waiting", "running"}

\* Lines 237-249: the chunks and the errors of url_results, in task order.
Collected(tasks) ==
    [chunks |-> SelectIndices(tasks, {"chunks"}, 1),
     errors |-> [k \in 1..Len(SelectIndices(tasks, {"error"}, 1)) |->
                    "url_error"]]

\* Lines 224-227 and 236-249: every task has returned; gather hands the
\* results over and the loop collects them.
GatherDone ==
    /\ request.phase = "gather"
    /\ ~Pending(url_tasks)
    /\ document_chunks' = document_chunks \o Collected(url_tasks).chunks
    /\ processing_errors' = processing_errors \o Collected(url_tasks).errors
    /\ request' = [request EXCEPT !.phase = "collected"]
    /\ UNCHANGED <<urls, files, url_tasks, sem, waiters>>
    /\ UNCHANGED <<storeVars, threadVars, chunkerVars, apiVars>>

\* Lines 228-234 and 250-253: the timer of wait_for goes off.  wait_for
\* cancels the gather, which cancels every task that has not returned: a
\* task in acquire() never enters, a task inside process_url is cancelled
\* while its executor thread runs on.  The handler records the timeout and
\* then reads task.done() on the elements of url_tasks, which are the
\* coroutine objects handed to gather: AttributeError, caught at line 250
\* and recorded; lines 237-249 are not reached.
Timeout ==
    /\ request.phase = "gather"
    /\ Pending(url_tasks)
    /\ url_tasks' = [i \in DOMAIN url_tasks |->
                        IF url_tasks[i] = "waiting" THEN "cancelled"
                        ELSE IF url_tasks[i] = "running" THEN "orphan"
                        ELSE url_tasks[i]]
    /\ waiters' = <<>>
    /\ sem' = sem + Cardinality(Processing)
    /\ processing_errors' = processing_errors \o <<"timeout", "gather_error">>
    /\ request' = [request EXCEPT !.phase = "collected", !.timed_out = TRUE]
    /\ UNCHANGED <<urls, files, document_chunks>>
    /\ UNCHANGED <<storeVars, threadVars, chunkerVars, apiVars>>

\* processor.process returns in the executor thread of a cancelled task.
ThreadExit ==
    /\ \E i \in DOMAIN url_tasks :
          /\ url_tasks[i] = "orphan"
          /\ url_tasks' = [url_tasks EXCEPT ![i] = "abandoned"]
    /\ UNCHANGED <<urls, files, sem, waiters, document_chunks, processing_errors, request>>
    /\ UNCHANGED <<storeVars, threadVars, chunkerVars, apiVars>>

\* The entry of document_chunks for the chunks of file j: the sources of a
\* request are numbered urls first, then files.
FileSource(j) == Len(urls) + j

\* Lines 255-309: the files, one after the other.  The chunks of a file go
\* to document_chunks (line 287), also when there are none; only what
\* raises inside the try is recorded (lines 292-295).
ProcessFiles ==
    /\ request.phase = "collected"
    /\ document_chunks' = document_chunks \o
          [k \in 1..Len(SelectIndices(files, {"chunks"}, 1)) |->
              FileSource(SelectIndices(files, {"chunks"}, 1)[k])]
    /\ processing_errors' = processing_errors \o
          [k \in 1..Len(SelectIndices(files, {"raise"}, 1)) |-> "file_error"]
    /\ request' = [request EXCEPT !.phase = "files_done"]
    /\ UNCHANGED <<urls, files, url_tasks, sem, waiters>>
    /\ UNCHANGED <<storeVars, threadVars, chunkerVars, apiVars>>

\* The DocumentChunk objects of document_chunks (lines 237-245, 283-287):
\* no embedding, the source in the metadata.
RequestChunks(dc) ==
    [i \in DOMAIN dc |->
        DocumentChunk("tA", IF dc[i] <= Len(urls) THEN "s1" ELSE "s2", "T1", NoVector)]

\* Lines 312-403: document_chunks, when not empty, goes to
\* vectorstore.add_documents in an executor thread, and what the call
\* returns is only printed; success = len(document_chunks) > 0 and
\* document_count = len(document_chunks).
Respond ==
    /\ request.phase = "files_done"
    /\ IF document_chunks = <<>>
       THEN /\ request' = [request EXCEPT !.phase = "responded"]
            /\ UNCHANGED storeVars
       ELSE /\ \E embedOk \in BOOLEAN :
                  add_documents(RequestChunks(document_chunks), embedOk, "none")
            /\ request' = [request EXCEPT !.phase = "responded",
                                          !.success = Len(document_chunks) > 0,
                                          !.document_count = Len(document_chunks),
                                          !.passed = document_chunks,
                                          !.ids = last'.ids]
            /\ UNCHANGED faults
    /\ UNCHANGED <<urls, files, url_tasks, sem, waiters, document_chunks, processing_errors>>
    /\ UNCHANGED <<threadVars, chunkerVars, apiVars>>

NextIngest ==
    \/ CreateUrlTasks
    \/ StartGather
    \/ FinishUrl
    \/ Admit
    \/ GatherDone
    \/ Timeout
    \/ ThreadExit
    \/ ProcessFiles
    \/ Respond

IngestInit == StoreInit /\ ChunkerIdle /\ IngestCalled /\ ApiIdle

\* The event loop runs what is ready, and the timer goes off unless the
\* gather finishes; nothing makes a processor return.
SpecIngest ==
    /\ IngestInit
    /\ [][NextIngest]_vars
    /\ WF_vars(CreateUrlTasks)
    /\ WF_vars(StartGather)
    /\ WF_vars(Admit)
    /\ WF_vars(GatherDone)
    /\ WF_vars(Timeout)
    /\ WF_vars(ProcessFiles)
    /\ WF_vars(Respond)

---------------------------------------------------------------------------
(* Claims about ingest_documents *)

\* process_url has been entered for url i.
Admitted(i) ==
    /\ i \in DOMAIN url_tasks
    /\ url_tasks[i] \in {"running", "orphan", "abandoned"} \cup Outcomes

\* url i has an http(s) prefix and a task.
HasTask(i) == i \in DOMAIN url_tasks /\ url_tasks[i] = "created"

\* At most max_concurrent_tasks urls of the request are inside process_url.
AtMostMaxConcurrent == Cardinality(Processing) <= max_concurrent_tasks

\* C19 (as claimed): at no moment are more than max_concurrent_tasks urls of
\* the request inside process_url, and every url with an http(s) prefix is
\* eventually admitted (process_url is entered for it, the least that
\* "admitted and processed" asks for).
C19_BoundedAndAllAdmitted ==
    /\ []AtMostMaxConcurrent
    /\ \A i \in 1..MaxUrls : HasTask(i) ~> Admitted(i)

\* C20 (as claimed): in a request whose URL processing timed out, the chunks
\* of every url that process_url had returned chunks for before the timeout
\* are in what is passed to add_documents, and with such a url the response
\* reports success.
C20_TimeoutKeepsCompleted ==
    request.phase = "responded" /\ request.timed_out =>
        /\ \A i \in DOMAIN url_tasks :
              url_tasks[i] = "chunks" => i \in Range(request.passed)
        /\ (\E i \in DOMAIN url_tasks : url_tasks[i] = "chunks") => request.success

---------------------------------------------------------------------------
(* Further claims about chunk_text *)

\* The cleaning as the specification describes it, from index i on: a run of
\* three or more whitespace characters becomes a paragraph break, a run of
\* two a line break, a tab a space.
RECURSIVE CollapseRuns(_, _)
CollapseRuns(t, i) ==
    IF i > Len(t) THEN <<>>
    ELSE IF RunLength(t, i) >= 3
    THEN <<"\n", "\n">> \o CollapseRuns(t, i + RunLength(t, i))
    ELSE IF RunLength(t, i) = 2
    THEN <<"\n">> \o CollapseRuns(t, i + 2)
    ELSE <<IF t[i] = "\t" THEN " " ELSE t[i]>> \o CollapseRuns(t, i + 1)

\* C23 (as claimed): the cleaned text is the input without its leading and
\* trailing whitespace, with every interior run of three or more whitespace
\* characters replaced by '\n\n', every interior run of two by '\n', and
\* every other tab by a space.
C23_Preprocessing ==
    ret.st \in {"run", "ok", "raise"} => cleaned = CollapseRuns(strip(doc), 1)

\* The lengths of the maximal whitespace runs of t from index i on, in order.
RECURSIVE RunLengths(_, _)
RunLengths(t, i) ==
    IF i > Len(t) THEN <<>>
    ELSE IF RunLength(t, i) = 0 THEN RunLengths(t, i + 1)
    ELSE <<RunLength(t, i)>> \o RunLengths(t, i + RunLength(t, i))

\* The positions (from 0) of the whitespace characters of t from index i on.
RECURSIVE WhitespacePositions(_, _)
WhitespacePositions(t, i) ==
    IF i > Len(t) THEN <<>>
    ELSE (IF IsSpace(t[i]) THEN <<i - 1>> ELSE <<>>) \o WhitespacePositions(t, i + 1)

\* Where the paragraph breaks of the document (its interior runs of three or
\* more whitespace characters) stand in the cleaned text: the cleaning leaves
\* one character per interior run.
ParagraphBreaks(raw, text) ==
    {WhitespacePositions(text, 1)[k] :
        k \in {j \in DOMAIN RunLengths(strip(raw), 1) \cap DOMAIN WhitespacePositions(text, 1) :
                  RunLengths(strip(raw), 1)[j] >= 3}}

\* The positions of '. ', '! ' and '? ' in text.
SentenceEnds(text) ==
    {p \in 0..(Len(text) - 2) : text[p + 1] \in {".", "!", "?"} /\ text[p + 2] = " "}

\* C24 (as claimed): a create_chunks call that splits breaks at the last
\* paragraph break of the document after start and before mid_point +
\* half_chunk; without one, just after the last sentence end after start and
\* before mid_point + quarter_chunk; without one, at mid_point; and the break
\* lies strictly between start and end.
C24_BreakPointOrder ==
    ret.st = "run" /\ pending # <<>> /\ ~IsBase(cleaned, Head(pending)) =>
        LET c == Head(pending)
            mid_point == c.start_pos +
                            Len(SectionText(cleaned, c.start_pos, c.end_pos)) \div 2
            paragraphs == {p \in ParagraphBreaks(doc, cleaned) :
                              p > c.start_pos /\ p < mid_point + HalfChunk}
            sentences == {p \in SentenceEnds(cleaned) :
                              p > c.start_pos /\ p + 2 <= mid_point + QuarterChunk}
            best_break == Halves(cleaned, c)[1].end_pos
        IN  /\ paragraphs # {} => best_break = Max(paragraphs)
            /\ paragraphs = {} /\ sentences # {} => best_break = Max(sentences) + 1
            /\ paragraphs = {} /\ sentences = {} => best_break = mid_point
            /\ c.start_pos < best_break /\ best_break < c.end_pos

\* C25: every chunk that chunk_text returns for a cleaned text at or above
\* the short-text limit has char_start < char_end, both within
\* [0, len(cleaned text)], a non-empty text of at most chunk_size_chars
\* characters, and that text is the slice [char_start, char_end) of the
\* cleaned text without its leading and trailing whitespace.
C25_WellFormedChunks ==
    ret.st = "ok" /\ Len(cleaned) >= ShortLimit =>
        \A i \in DOMAIN ret.chunks :
            LET c == ret.chunks[i]
            IN  /\ c.char_start < c.char_end
                /\ 0 <= c.char_start /\ c.char_end <= Len(cleaned)
                /\ c.text # <<>>
                /\ Len(c.text) <= ChunkSizeChars
                /\ c.text = strip(SubSeq(cleaned, c.char_start + 1, c.char_end))

\* C25 witness: the recursion has returned several chunks, one of them
\* shorter than its range because of the whitespace at its ends.
C25_Witness ==
    /\ ret.st = "ok"
    /\ Len(cleaned) >= ShortLimit
    /\ Len(ret.chunks) >= 2
    /\ \E i \in DOMAIN ret.chunks :
          Len(ret.chunks[i].text) < ret.chunks[i].char_end - ret.chunks[i].char_start

---------------------------------------------------------------------------
(* Further claims about the sequential store *)

\* C26: an add_documents call that returns no ids leaves the dimension as
\* it was; the call that returns ids while no dimension is bound binds it to
\* the length of the first embedding of its batch; a bound dimension is
\* changed by no add_documents, search or clear call, only
\* start_new_session resets it.
C26_DimensionBoundOnce ==
    [][/\ last'.op = "add" /\ last'.ids = <<>> => dimension' = dimension
       /\ last'.op = "add" /\ last'.ids # <<>> /\ dimension = None =>
             dimension' = Len(EmbedChunks(last'.chunks)[1].embedding)
       /\ last'.op = "add" /\ last'.ids # <<>> => dimension' # None
       /\ last'.op # "new_session" /\ dimension # None => dimension' = dimension]_vars

\* The number of entries of the document table whose source is s.
StoredOf(s) == Cardinality({ i \in DOMAIN documents : documents[i].source = s })

\* C27: the chunk_count of every source is the number of entries of the
\* document table with that source, and a source has a record only if at
\* least one of its chunks is stored.
C27_RegistryMatchesTable ==
    \A s \in SourceNames :
        /\ s \in DOMAIN sources =>
              sources[s].chunk_count = StoredOf(s) /\ StoredOf(s) >= 1
        /\ s \notin DOMAIN sources => StoredOf(s) = 0

\* C28: the index holds as many vectors as the document table has entries,
\* the keys of the table are 0..N-1, and the vector at position i of the
\* index is the normalized embedding of the entry stored under id i.
C28_IndexAlignedWithTable ==
    /\ Len(index.vecs) = Cardinality(DOMAIN documents)
    /\ DOMAIN documents = 0..(Len(index.vecs) - 1)
    /\ \A i \in DOMAIN documents :
          /\ i + 1 \in DOMAIN index.vecs
          /\ index.vecs[i + 1] = normalize_L2(documents[i].embedding)

---------------------------------------------------------------------------
(* Further claims about ingest_documents *)

\* How many entries of seq are e.
CountOf(seq, e) == Cardinality({ k \in DOMAIN seq : seq[k] = e })

\* C21: in a request that has been answered (and whose gather did not time
\* out), every url without an http(s) prefix, every url whose processing
\* raised or gave no chunks, and every file whose processing raised or gave
\* no chunks has its entry in processing_errors; the chunks of every other
\* url and file are in what was passed to add_documents; and the response
\* says success exactly when document_chunks is not empty.
C21_PartialSuccess ==
    request.phase = "responded" /\ ~request.timed_out =>
        /\ CountOf(processing_errors, "invalid") =
              Cardinality({ i \in DOMAIN urls : ~ValidPrefix(urls[i]) })
        /\ CountOf(processing_errors, "url_error") =
              Cardinality({ i \in DOMAIN urls : url_tasks[i] = "error" })
        /\ CountOf(processing_errors, "file_error") =
              Cardinality({ j \in DOMAIN files : files[j] \in {"empty", "raise"} })
        /\ \A i \in DOMAIN urls :
              url_tasks[i] = "chunks" => i \in Range(request.passed)
        /\ \A j \in DOMAIN files :
              files[j] = "chunks" => FileSource(j) \in Range(request.passed)
        /\ request.success <=> document_chunks # <<>>

\* C29: a response with success = true and document_count = n means that
\* add_documents returned n ids and the n chunks are entries of the document
\* table under these ids; when add_documents was called and returned no
\* ids, the response does not say success.
C29_ResponseReflectsStore ==
    request.phase = "responded" =>
        /\ request.success =>
              /\ Len(request.ids) = request.document_count
              /\ \A k \in DOMAIN request.ids : request.ids[k] \in DOMAIN documents
        /\ request.passed # <<>> /\ request.ids = <<>> => ~request.success

---------------------------------------------------------------------------
(* The answer flow: ask_question and RAGEngine.generate_answer_async *)

\* What _call_openrouter_api and _extract_answer come to (rag.py:198-260):
\* no API key, so no request is made and a canned response is returned; the
\* request is made and answered; the request raises a RequestException,
\* which is caught and turned into a canned response; or the request is
\* answered with a body that _extract_answer cannot read (a JSON list, a
\* null "choices"), which raises up to generate_answer_async.
LlmOutcomes == {"no_key", "ok", "request_error", "bad_body"}

NoInformation == "I don't have any information to answer that question."

\* rag.py:77-96: one source_info per retrieved chunk, numbered from 0, in
\* the order of relevant_chunks.
SourcesOf(docs, keys) ==
    [i \in DOMAIN keys |->
        [id |-> i - 1, source |-> docs[keys[i]].source, title |-> docs[keys[i]].title]]

\* A variant of the error branch that answers without the sources.
ErrorAnswerNoSources(srcs) ==
    [answer |-> "I'm sorry, I encountered an error while generating an answer.",
     sources |-> <<>>]

\* rag.py:157-170: the except branch of generate_answer_async.
ErrorAnswer(srcs) ==
    [answer |-> "I'm sorry, I encountered an error while generating an answer.",
     sources |-> srcs]

\* rag.py:134-170: the answer and the sources returned after the prompt was
\* built, by what the language-model call came to.
Generated(llm, srcs) ==
    IF llm = "bad_body" THEN ErrorAnswer(srcs)
    ELSE [answer |-> IF llm = "ok" THEN "generated"
                     ELSE IF llm = "no_key" THEN "I cannot access the language model"
                     ELSE "I encountered an error while calling the language model API",
          sources |-> srcs]

\* ask.py:99-116 and rag.py:36-131: the question is validated, the store is
\* searched; without a chunk the fixed answer is returned at once (lines
\* 54-63), otherwise the sources and the prompt are built.
Retrieve ==
    /\ ask.pc = "idle"
    /\ \E question \in Queries, k \in 1..MaxK, embedOk \in BOOLEAN :
          /\ ~embedOk => ~IsNone(index) /\ DOMAIN documents # {}
          /\ Raises(IF embedOk THEN 0 ELSE 1)
          /\ search(question, k, embedOk)
          /\ ask' = IF last'.res = <<>>
                    THEN [AskIdle EXCEPT !.pc = "responded", !.question = question,
                                         !.num_chunks = k, !.answer = NoInformation]
                    ELSE [AskIdle EXCEPT !.pc = "prompted", !.question = question,
                                         !.num_chunks = k,
                                         !.relevant_chunks = last'.res,
                                         !.sources = SourcesOf(documents, last'.res)]
    /\ UNCHANGED <<ingests, calls, observed>>
    /\ UNCHANGED <<chunkerVars, ingestVars>>

\* rag.py:134-170 and ask.py:118-130: the language model is called and the
\* response is built.
Generate ==
    /\ ask.pc = "prompted"
    /\ \E llm \in LlmOutcomes :
          ask' = [ask EXCEPT !.pc = "responded",
                             !.posts = @ + (IF llm = "no_key" THEN 0 ELSE 1),
                             !.answer = Generated(llm, ask.sources).answer,
                             !.sources = Generated(llm, ask.sources).sources]
    /\ UNCHANGED ingests
    /\ UNCHANGED <<storeVars, threadVars, chunkerVars, ingestVars>>

\* The response has been sent; the next question can come.
NextQuestion ==
    /\ ask.pc = "responded"
    /\ ask' = AskIdle
    /\ UNCHANGED ingests
    /\ UNCHANGED <<storeVars, threadVars, chunkerVars, ingestVars>>

NextAsk == AddDocuments \/ Retrieve \/ Generate \/ NextQuestion

\* Questions on a store that documents are added to.
SpecAsk == Init /\ [][NextAsk]_vars

---------------------------------------------------------------------------
(* Ingest requests that overlap on the one store *)

\* The chunks of the request of client r: one chunk of a source of its own.
ClientChunks(r) ==
    IF r = 1 THEN <<DocumentChunk("tA", "s1", "T1", NoVector)>>
    ELSE <<DocumentChunk("tB", "s2", "T2", NoVector)>>

\* ingest.py:53-70: the request arrives; with new_session it calls
\* vectorstore.start_new_session() on the module's singleton, and then
\* awaits (log_rag_event, the url tasks, the files), so that the event loop
\* can run another request.
BeginIngest(r) ==
    /\ ingests[r].pc = "idle"
    /\ \E new_session \in BOOLEAN :
          /\ IF new_session THEN start_new_session ELSE UNCHANGED storeVars
          /\ ingests' = [ingests EXCEPT ![r] =
                            [pc |-> "processing", new_session |-> new_session,
                             session |-> session_id', added_in |-> 0]]
    /\ UNCHANGED <<faults, ask, calls, observed>>
    /\ UNCHANGED <<chunkerVars, ingestVars>>

\* ingest.py:312-349: the chunks of the request go to
\* vectorstore.add_documents, which stores them in whatever session the
\* singleton is in by now.
StoreChunks(r) ==
    /\ ingests[r].pc = "processing"
    /\ WithinBounds(ClientChunks(r))
    /\ add_documents(ClientChunks(r), TRUE, "none")
    /\ ingests' = [ingests EXCEPT ![r].pc = "done", ![r].added_in = session_id]
    /\ UNCHANGED <<faults, ask, calls, observed>>
    /\ UNCHANGED <<chunkerVars, ingestVars>>

\* ingest.py:399-403: the response is sent; the client may post again.
EndIngest(r) ==
    /\ ingests[r].pc = "done"
    /\ ingests' = [ingests EXCEPT ![r].pc = "idle"]
    /\ UNCHANGED ask
    /\ UNCHANGED <<storeVars, threadVars, chunkerVars, ingestVars>>

NextOverlap ==
    \/ Tick
    \/ \E r \in Clients : BeginIngest(r)
    \/ \E r \in Clients : StoreChunks(r)
    \/ \E r \in Clients : EndIngest(r)

SpecOverlap == Init /\ [][NextOverlap]_vars

\* Client r has posted with new_session and its chunks have been stored.
StoredItsChunks(r) == ingests[r].pc = "done" /\ ingests[r].new_session

\* C30: of two requests with new_session that started sessions with
\* different ids, each has its chunks stored in the session it started, and
\* not in the session the other one started.
C30_OwnSessionOnly ==
    \A r, q \in Clients :
        /\ r # q
        /\ StoredItsChunks(r)
        /\ ingests[q].new_session /\ ingests[q].pc \in {"processing", "done"}
        /\ ingests[q].session # ingests[r].session
        => /\ ingests[r].added_in = ingests[r].session
           /\ ingests[r].added_in # ingests[q].session

====
